---- MODULE Spec2Model ----
(***************************************************************************)
(* Model of the weather-station data pipeline of insidemyroom:             *)
(* csv-parser (parseCSV, mergeReadings, computeStats, filterByDateRange,   *)
(* formatForChart), weather-data (getWeatherData), google-drive            *)
(* (fetchAllCSVData) and the chart helpers of weather-charts.              *)
(*                                                                         *)
(* Conventions.                                                            *)
(*  - A Date object is a record [time |-> n]; n is the value getTime()     *)
(*    returns.  Instants are counted in ticks of 1/TicksPerSecond second   *)
(*    (the source counts milliseconds; 30 days of milliseconds do not fit  *)
(*    the integers of the model checker, so the model keeps a coarser      *)
(*    unit that still tells apart two instants of the same second).        *)
(*  - A number of a reading is written in hundredths: 1810 stands for the  *)
(*    IEEE-754 double that parseFloat("18.10") returns.  Arithmetic on     *)
(*    these doubles is modelled bit for bit (section "IEEE-754 doubles").  *)
(***************************************************************************)
EXTENDS Integers, Sequences, FiniteSets, TLC

VARIABLES
    pc,             \* position of getWeatherData, or of the caller of a function
    env,            \* process.env: which settings are configured
    drive,          \* the contents of the CSV files of the Drive folder, as listed
    downloads,      \* the downloads that have ended, in the order they ended
    raised,         \* the error fetchAllCSVData raised (Null when none)
    csvContents,    \* string[]: the value fetchAllCSVData returned
    readingsArrays, \* WeatherReading[][]: parsed, the argument of mergeReadings
    readings,       \* WeatherReading[]: the value mergeReadings returned
    second,         \* the value of a second call of mergeReadings
    stats,          \* the value computeStats returned (Null when absent)
    result,         \* the value getWeatherData returned (Null before it returns)
    clock,          \* the ambient wall clock, read by new Date()
    calls,          \* the calls of filterByDateRange made so far
    view            \* what the page rendered, or what a chart helper returned

vars == <<pc, env, drive, downloads, raised, csvContents, readingsArrays,
          readings, second, stats, result, clock, calls, view>>

(* What a caller of one function leaves alone *)
fetchVars == <<env, drive, downloads, raised>>
pipelineVars == <<fetchVars, csvContents, result>>
clockVars == <<clock, calls>>

----------------------------------------------------------------------------
(* Bounds of the model *)

MaxFiles == 2
MaxReadings == 3
MaxStatsReadings == 4
TicksPerSecond == 10

(* null, as an object so that it compares with any other value *)
Null == [null |-> TRUE]

(* Instants of the model: two of them lie in the same whole second. *)
Instants == {TicksPerSecond, TicksPerSecond + 4, 2 * TicksPerSecond}
Dates == [time : Instants]
Temps == {1810, 1820}
Hums == {5800, 5875, 5900}
WeatherReading == [timestamp : Dates, temperature : Temps, humidity : Hums]

SeqsUpTo(S, n) == UNION {[1..k -> S] : k \in 0..n}

----------------------------------------------------------------------------
(* Date *)

getTime(d) == d.time

(* An Invalid Date has the time value NaN. *)
NaN == -1
InvalidDate == [time |-> NaN]

(* new Date(timestampStr): the text parses to an instant or not at all *)
newDate(timestampStr) ==
    IF timestampStr.valid THEN [time |-> timestampStr.time] ELSE InvalidDate

(* date.toISOString(): the text "...:ss.sssZ", its whole seconds and its
   fraction apart *)
toISOString(d) ==
    [seconds |-> getTime(d) \div TicksPerSecond,
     fraction |-> getTime(d) % TicksPerSecond]

----------------------------------------------------------------------------
(* parseCSV.  A text is the sequence of its lines (the empty text is <<>>).
   Of a line the model keeps what parseCSV asks of it:
     blank       nothing is left after trim()
     start       the first characters of the trimmed line, one per element
     comma       the line holds a comma
     timestampStr  the text before the first comma: [valid, time]
     humidity, temp  what /Humidity:\s*([\d.]+)%/i and /Temp:\s*([\d.]+)C/i
                 capture in the text after it: [matched, numeric, hundredths],
                 numeric being whether parseFloat of the capture is a number *)

Line(blank, start, comma, timestampStr, humidity, temp) ==
    [blank |-> blank, start |-> start, comma |-> comma,
     timestampStr |-> timestampStr, humidity |-> humidity, temp |-> temp]

(* String.prototype.toLowerCase, over the letters the lines start with *)
lowerCaseOf(c) ==
    CASE c = "T" -> "t" [] c = "I" -> "i" [] c = "M" -> "m" [] c = "E" -> "e"
      [] c = "S" -> "s" [] c = "A" -> "a" [] c = "P" -> "p" [] c = "N" -> "n"
      [] OTHER -> c

toLowerCase(text) == [i \in DOMAIN text |-> lowerCaseOf(text[i])]

(* String.prototype.startsWith *)
startsWith(text, prefix) ==
    Len(text) >= Len(prefix) /\ SubSeq(text, 1, Len(prefix)) = prefix

(* parseFloat of a numeral too large for a double *)
Infinity == 2 ^ 30

NoMatch == [matched |-> FALSE, numeric |-> FALSE, hundredths |-> 0]
Captured(v) == [matched |-> TRUE, numeric |-> TRUE, hundredths |-> v]
(* "." and ".." match [\d.]+ and parse to NaN *)
CapturedDot == [matched |-> TRUE, numeric |-> FALSE, hundredths |-> 0]
(* a numeral of 400 digits matches [\d.]+ and parses to Infinity, which is
   not NaN *)
CapturedHuge == [matched |-> TRUE, numeric |-> TRUE, hundredths |-> Infinity]
TimeText(t) == [valid |-> TRUE, time |-> t]
NotADate == [valid |-> FALSE, time |-> 0]

(* "2026-02-08 12:00:21,Humidity: 59.00%  Temp: 18.10C" *)
RecordLine(t, hum, temp) ==
    Line(FALSE, <<"2", "0", "2", "6", "-", "0", "2", "-", "0", "8">>, TRUE,
         TimeText(t), Captured(hum), Captured(temp))
(* "Timestamp,Raw_Data" *)
HeaderLine ==
    Line(FALSE, <<"T", "i", "m", "e", "s", "t", "a", "m", "p", ",">>, TRUE,
         NotADate, NoMatch, NoMatch)
(* "garbage line with no comma" *)
GarbageLine ==
    Line(FALSE, <<"g", "a", "r", "b", "a", "g", "e">>, FALSE,
         NotADate, NoMatch, NoMatch)
(* "" *)
BlankLine == Line(TRUE, <<>>, FALSE, NotADate, NoMatch, NoMatch)

(* Mutant: a malformed line ends the loop (break for continue). *)
RECURSIVE parseLinesUntilMalformed(_)
parseLinesUntilMalformed(lines) ==
    IF lines = <<>> THEN <<>>
    ELSE LET line == Head(lines)
             timestamp == newDate(line.timestampStr)
             rest == parseLinesUntilMalformed(Tail(lines))
         IN  IF line.blank THEN <<>>
             ELSE IF startsWith(toLowerCase(line.start),
                                <<"t", "i", "m", "e", "s", "t", "a", "m", "p">>)
                  THEN rest
             ELSE IF ~line.comma THEN <<>>
             ELSE IF getTime(timestamp) = NaN THEN <<>>
             ELSE IF ~line.humidity.matched \/ ~line.temp.matched THEN <<>>
             ELSE IF ~line.humidity.numeric \/ ~line.temp.numeric THEN <<>>
             ELSE <<[timestamp |-> timestamp,
                     temperature |-> line.temp.hundredths,
                     humidity |-> line.humidity.hundredths]>> \o rest

(* Mutant: a header line ends the loop. *)
RECURSIVE parseLinesUntilHeader(_)
parseLinesUntilHeader(lines) ==
    IF lines = <<>> THEN <<>>
    ELSE LET line == Head(lines)
             timestamp == newDate(line.timestampStr)
             rest == parseLinesUntilHeader(Tail(lines))
         IN  IF line.blank THEN rest
             ELSE IF startsWith(toLowerCase(line.start),
                                <<"t", "i", "m", "e", "s", "t", "a", "m", "p">>)
                  THEN <<>>
             ELSE IF ~line.comma THEN rest
             ELSE IF getTime(timestamp) = NaN THEN rest
             ELSE IF ~line.humidity.matched \/ ~line.temp.matched THEN rest
             ELSE IF ~line.humidity.numeric \/ ~line.temp.numeric THEN rest
             ELSE <<[timestamp |-> timestamp,
                     temperature |-> line.temp.hundredths,
                     humidity |-> line.humidity.hundredths]>> \o rest

(* The body of the for loop, over the lines that are left *)
RECURSIVE parseLines(_)
parseLines(lines) ==
    IF lines = <<>> THEN <<>>
    ELSE LET line == Head(lines)
             timestamp == newDate(line.timestampStr)
             rest == parseLines(Tail(lines))
         IN  IF line.blank THEN rest
             ELSE IF startsWith(toLowerCase(line.start),
                                <<"t", "i", "m", "e", "s", "t", "a", "m", "p">>)
                  THEN rest
             ELSE IF ~line.comma THEN rest
             ELSE IF getTime(timestamp) = NaN THEN rest
             ELSE IF ~line.humidity.matched \/ ~line.temp.matched THEN rest
             ELSE IF ~line.humidity.numeric \/ ~line.temp.numeric THEN rest
             ELSE <<[timestamp |-> timestamp,
                     temperature |-> line.temp.hundredths,
                     humidity |-> line.humidity.hundredths]>> \o rest

parseCSV(raw) == parseLines(raw)

----------------------------------------------------------------------------
(* mergeReadings *)

RECURSIVE flat(_)
flat(arrays) ==
    IF arrays = <<>> THEN <<>> ELSE Head(arrays) \o flat(Tail(arrays))

(* Mutant: the key truncated to the whole second. *)
dedupKeyWholeSecond(r) == getTime(r.timestamp) \div TicksPerSecond

(* const key = r.timestamp.getTime() *)
dedupKey(r) == getTime(r.timestamp)

(* Mutant: the last reading of a timestamp wins. *)
RECURSIVE filterSeenKeepLast(_, _)
filterSeenKeepLast(all, seen) ==
    IF all = <<>> THEN <<>>
    ELSE LET r == Head(all)
             rest == Tail(all)
         IN  IF \E i \in DOMAIN rest : dedupKey(rest[i]) = dedupKey(r)
             THEN filterSeenKeepLast(rest, seen)
             ELSE <<r>> \o filterSeenKeepLast(rest, seen)

(* Mutant: only the key of the previous reading is remembered. *)
RECURSIVE filterSeenAdjacent(_, _)
filterSeenAdjacent(all, seen) ==
    IF all = <<>> THEN <<>>
    ELSE LET r == Head(all)
             key == dedupKey(r)
         IN  IF key \in seen
             THEN filterSeenAdjacent(Tail(all), {key})
             ELSE <<r>> \o filterSeenAdjacent(Tail(all), {key})

(* Mutant: nothing is filtered. *)
filterSeenNothing(all, seen) == all

(* all.filter(r => { if (seen.has(key)) return false; seen.add(key); return true }) *)
RECURSIVE filterSeen(_, _)
filterSeen(all, seen) ==
    IF all = <<>> THEN <<>>
    ELSE LET r == Head(all)
             key == dedupKey(r)
         IN  IF key \in seen
             THEN filterSeen(Tail(all), seen)
             ELSE <<r>> \o filterSeen(Tail(all), seen \cup {key})

(* The comparator of unique.sort(...) *)
compareTime(a, b) == getTime(a.timestamp) - getTime(b.timestamp)

(* Array.prototype.sort is stable: an element is placed after every element
   that does not compare greater than it. *)
RECURSIVE insertSorted(_, _)
insertSorted(sorted, r) ==
    IF sorted = <<>> THEN <<r>>
    ELSE IF compareTime(Head(sorted), r) <= 0
         THEN <<Head(sorted)>> \o insertSorted(Tail(sorted), r)
         ELSE <<r>> \o sorted

RECURSIVE sortInto(_, _)
sortInto(sorted, rest) ==
    IF rest = <<>> THEN sorted
    ELSE sortInto(insertSorted(sorted, Head(rest)), Tail(rest))

(* Mutant: the sort is left out. *)
sortOmitted(unique) == unique

(* unique.sort((a, b) => a.timestamp.getTime() - b.timestamp.getTime()) *)
sortChronologically(unique) == sortInto(<<>>, unique)

(* Mutant: the timestamps of the output are cut to the whole second. *)
mergeReadingsTruncating(arrays) ==
    LET merged == sortChronologically(filterSeen(flat(arrays), {}))
    IN  [i \in DOMAIN merged |->
            [merged[i] EXCEPT !.timestamp =
                [time |-> (getTime(@) \div TicksPerSecond) * TicksPerSecond]]]

mergeReadings(arrays) ==
    LET all == flat(arrays)
        unique == filterSeen(all, {})
    IN  sortChronologically(unique)

----------------------------------------------------------------------------
(* IEEE-754 doubles (the Number type).  A natural number is a sequence of
   limbs of LimbBits bits, least significant first.  A double is
   [m |-> limbs, e |-> k] and stands for m * 2^e; m has exactly MantissaBits
   bits, or is <<>> for zero.  The numbers of the model are far from the
   subnormal and the overflow range, which are not modelled; all of them are
   >= 0, as the patterns of parseCSV capture no sign. *)

MantissaBits == 53
LimbBits == 15
Base == 2 ^ LimbBits

Min(a, b) == IF a <= b THEN a ELSE b

RECURSIVE natLimbs(_)
natLimbs(n) == IF n = 0 THEN <<>> ELSE <<n % Base>> \o natLimbs(n \div Base)

RECURSIVE limbsNat(_)
limbsNat(l) == IF l = <<>> THEN 0 ELSE Head(l) + Base * limbsNat(Tail(l))

RECURSIVE trim(_)
trim(l) ==
    IF l = <<>> THEN <<>>
    ELSE IF l[Len(l)] = 0 THEN trim(SubSeq(l, 1, Len(l) - 1)) ELSE l

RECURSIVE bitLenNat(_)
bitLenNat(n) == IF n = 0 THEN 0 ELSE 1 + bitLenNat(n \div 2)

bitLen(l) ==
    LET tl == trim(l)
    IN  IF tl = <<>> THEN 0
        ELSE LimbBits * (Len(tl) - 1) + bitLenNat(tl[Len(tl)])

limbAt(l, i) == IF i \in DOMAIN l THEN l[i] ELSE 0

RECURSIVE addFrom(_, _, _, _)
addFrom(a, b, i, carry) ==
    IF i > Len(a) /\ i > Len(b)
    THEN IF carry = 0 THEN <<>> ELSE <<carry>>
    ELSE LET sum == limbAt(a, i) + limbAt(b, i) + carry
         IN  <<sum % Base>> \o addFrom(a, b, i + 1, sum \div Base)

addLimbs(a, b) == addFrom(a, b, 1, 0)

(* l * k for 0 <= k <= Base *)
RECURSIVE mulFrom(_, _, _, _)
mulFrom(l, k, i, carry) ==
    IF i > Len(l) THEN natLimbs(carry)
    ELSE LET prod == l[i] * k + carry
         IN  <<prod % Base>> \o mulFrom(l, k, i + 1, prod \div Base)

mulSmall(l, k) == mulFrom(l, k, 1, 0)

(* Long division of the limbs i..1 of l by d in 1..Base, rem being what is
   left of the higher limbs: quotient q and remainder r. *)
RECURSIVE divFrom(_, _, _, _)
divFrom(l, d, i, rem) ==
    IF i = 0 THEN [q |-> <<>>, r |-> rem]
    ELSE LET num == Base * rem + l[i]
             lower == divFrom(l, d, i - 1, num % d)
         IN  [q |-> lower.q \o <<num \div d>>, r |-> lower.r]

divSmall(l, d) == divFrom(l, d, Len(l), 0)

(* l * 2^k *)
shiftLeft(l, k) ==
    [i \in 1..(k \div LimbBits) |-> 0] \o mulSmall(l, 2 ^ (k % LimbBits))

(* l / 2^k: the quotient, and whether a non-zero remainder is lost *)
shiftRight(l, k) ==
    LET w == k \div LimbBits
        d == divSmall(SubSeq(l, w + 1, Len(l)), 2 ^ (k % LimbBits))
    IN  [q |-> d.q,
         lost |-> d.r # 0 \/ \E i \in 1..Min(w, Len(l)) : l[i] # 0]

numZero == [m |-> <<>>, e |-> 0]

(* Round-to-nearest, ties-to-even, of (limbs + a fraction that is non-zero
   when sticky) * 2^e. *)
roundToDouble(limbs, e, sticky) ==
    LET len == bitLen(limbs)
    IN  IF len = 0 THEN numZero
        ELSE IF len <= MantissaBits
        THEN [m |-> trim(shiftLeft(limbs, MantissaBits - len)),
              e |-> e - (MantissaBits - len)]
        ELSE LET s == len - MantissaBits
                 high == shiftRight(limbs, s - 1)
                 half == divSmall(high.q, 2)
                 kept == half.q
                 up == half.r = 1 /\ (sticky \/ high.lost \/ kept[1] % 2 = 1)
                 rounded == IF up THEN addLimbs(kept, <<1>>) ELSE kept
             IN  IF bitLen(rounded) > MantissaBits
                 THEN [m |-> trim(divSmall(rounded, 2).q), e |-> e + s + 1]
                 ELSE [m |-> trim(rounded), e |-> e + s]

numFromInt(n) == roundToDouble(natLimbs(n), 0, FALSE)

(* a + b *)
numAdd(x, y) ==
    IF x.m = <<>> THEN y
    ELSE IF y.m = <<>> THEN x
    ELSE LET e0 == Min(x.e, y.e)
         IN  roundToDouble(addLimbs(shiftLeft(x.m, x.e - e0),
                                    shiftLeft(y.m, y.e - e0)), e0, FALSE)

(* x / n for an integer n in 1..127: the quotient is taken with 12 more bits
   than the mantissa and the remainder is the sticky bit. *)
numDivInt(x, n) ==
    IF x.m = <<>> THEN numZero
    ELSE LET d == divSmall(shiftLeft(x.m, 12), n)
         IN  roundToDouble(d.q, x.e - 12, d.r # 0)

(* parseFloat of the decimal numeral of v / 100: the nearest double. *)
parseFloat(v) == numDivInt(numFromInt(v), 100)

(* Number.prototype.toFixed(1) of x >= 0 with x.e < 0: "let n be an integer
   for which n / 10 - x is as close to zero as possible; if there are two
   such n, pick the larger n".  The result is n, the numeral in tenths. *)
toFixed1(x) ==
    IF x.m = <<>> THEN 0
    ELSE LET twice == shiftRight(mulSmall(x.m, 10), (0 - x.e) - 1).q
         IN  (limbsNat(twice) + 1) \div 2

(* +(numeral in tenths): the double written in hundredths *)
numberOfTenths(n) == 10 * n

----------------------------------------------------------------------------
(* computeStats *)

(* xs.reduce((a, b) => a + b, 0) *)
RECURSIVE reduceSum(_, _)
reduceSum(xs, acc) ==
    IF xs = <<>> THEN acc
    ELSE reduceSum(Tail(xs), numAdd(acc, parseFloat(Head(xs))))

(* +(xs.reduce((a, b) => a + b, 0) / xs.length).toFixed(1) *)
average(xs) ==
    numberOfTenths(toFixed1(numDivInt(reduceSum(xs, numZero), Len(xs))))

RECURSIVE minOf(_)
minOf(xs) ==
    IF Len(xs) = 1 THEN xs[1]
    ELSE LET m == minOf(Tail(xs)) IN IF Head(xs) < m THEN Head(xs) ELSE m

RECURSIVE maxOf(_)
maxOf(xs) ==
    IF Len(xs) = 1 THEN xs[1]
    ELSE LET m == maxOf(Tail(xs)) IN IF Head(xs) > m THEN Head(xs) ELSE m

(* Mutant: the minimum rounded like the averages. *)
mathMinRounded(xs) == numberOfTenths(toFixed1(parseFloat(minOf(xs))))

(* Math.min(...xs), Math.max(...xs) of a non-empty xs *)
mathMin(xs) == minOf(xs)
mathMax(xs) == maxOf(xs)

(* Mutant: the first reading taken for the latest. *)
latestIsFirst(rs) == rs[1]

(* const latest = readings[readings.length - 1] *)
latestOf(rs) == rs[Len(rs)]

(* The object computeStats returns for a non-empty rs. *)
summaryOf(rs) ==
    LET temps == [i \in DOMAIN rs |-> rs[i].temperature]
        humids == [i \in DOMAIN rs |-> rs[i].humidity]
        latest == latestOf(rs)
    IN  [currentTemperature |-> latest.temperature,
         currentHumidity |-> latest.humidity,
         avgTemperature |-> average(temps),
         avgHumidity |-> average(humids),
         minTemperature |-> mathMin(temps),
         maxTemperature |-> mathMax(temps),
         minHumidity |-> mathMin(humids),
         maxHumidity |-> mathMax(humids),
         totalReadings |-> Len(rs),
         lastUpdated |-> latest.timestamp]

(* What a call ends with when it reads a property of undefined. *)
TypeError == [error |-> "TypeError"]

(* Mutant: without the guard, latest is undefined for an empty rs. *)
computeStatsUnguarded(rs) ==
    IF Len(rs) = 0 THEN TypeError ELSE summaryOf(rs)

computeStats(rs) ==
    IF Len(rs) = 0 THEN Null ELSE summaryOf(rs)

----------------------------------------------------------------------------
(* Harness of mergeReadings: the argument is any list of at most MaxFiles
   reading sequences holding at most MaxReadings readings together.  Two
   readings of the same instant can differ in both values. *)

MergeInputReading ==
    {r \in WeatherReading :
        /\ r.humidity # 5875
        /\ (r.temperature = 1810) <=> (r.humidity = 5900)}

Split(flatList, cut) ==
    [i \in DOMAIN cut |->
        SubSeq(flatList, (IF i = 1 THEN 0 ELSE cut[i - 1]) + 1, cut[i])]

ArraysOf(flatList) ==
    {Split(flatList, cut) :
        cut \in {c \in SeqsUpTo(0..Len(flatList), MaxFiles) :
                    /\ \A i \in DOMAIN c : i > 1 => c[i - 1] <= c[i]
                    /\ IF c = <<>> THEN flatList = <<>>
                       ELSE c[Len(c)] = Len(flatList)}}

InitMerge ==
    /\ pc = "parsed"
    /\ \E flatList \in SeqsUpTo(MergeInputReading, MaxReadings) :
          readingsArrays \in ArraysOf(flatList)
    /\ readings = <<>>
    /\ second = <<>>
    /\ stats = Null
    /\ drive = <<>> /\ csvContents = <<>> /\ result = Null
    /\ clock = 0 /\ calls = {}
    /\ env = Null /\ downloads = <<>> /\ raised = Null /\ view = Null

(* readings = mergeReadings(parsed) *)
Merge ==
    /\ pc = "parsed"
    /\ readings' = mergeReadings(readingsArrays)
    /\ pc' = "merged"
    /\ UNCHANGED <<readingsArrays, second, stats, pipelineVars, clockVars, view>>

(* mergeReadings([merged]) *)
MergeAgain ==
    /\ pc = "merged"
    /\ second' = mergeReadings(<<readings>>)
    /\ pc' = "remerged"
    /\ UNCHANGED <<readingsArrays, readings, stats, pipelineVars, clockVars, view>>

(* mergeReadings([a, a]) after mergeReadings([a]) *)
MergeWithItself ==
    /\ pc = "merged"
    /\ Len(readingsArrays) = 1
    /\ second' = mergeReadings(<<readingsArrays[1], readingsArrays[1]>>)
    /\ pc' = "selfmerged"
    /\ UNCHANGED <<readingsArrays, readings, stats, pipelineVars, clockVars, view>>

NextMerge == Merge \/ MergeAgain \/ MergeWithItself

SpecMerge == InitMerge /\ [][NextMerge]_vars

----------------------------------------------------------------------------
(* Properties of mergeReadings *)

Merged == pc \in {"merged", "remerged", "selfmerged"}
allInput == flat(readingsArrays)
timeOf(r) == getTime(r.timestamp)
secondOf(r) == timeOf(r) \div TicksPerSecond

(* C1: the output of mergeReadings is ordered by non-decreasing timestamp and
   no two of its elements have the same timestamp. *)
C1_SortedNoDuplicates ==
    Merged =>
        /\ \A i \in 1..(Len(readings) - 1) :
              timeOf(readings[i]) <= timeOf(readings[i + 1])
        /\ \A i, j \in DOMAIN readings :
              i # j => timeOf(readings[i]) # timeOf(readings[j])

(* C1 witness: an input that is out of order and repeats a timestamp has been
   merged into at least two readings. *)
C1_Witness ==
    /\ pc = "merged"
    /\ Len(readings) >= 2
    /\ \E i, j \in DOMAIN allInput : i < j /\ timeOf(allInput[i]) > timeOf(allInput[j])
    /\ \E i, j \in DOMAIN allInput : i < j /\ timeOf(allInput[i]) = timeOf(allInput[j])

(* C2: of several readings of the flattened input with the same timestamp the
   output holds exactly the first one, whatever the values of the later ones. *)
C2_FirstOccurrenceKept ==
    Merged =>
        \A j \in DOMAIN allInput :
            LET first == CHOOSE i \in DOMAIN allInput :
                            /\ timeOf(allInput[i]) = timeOf(allInput[j])
                            /\ \A k \in 1..(i - 1) : timeOf(allInput[k]) # timeOf(allInput[j])
                held == {k \in DOMAIN readings : timeOf(readings[k]) = timeOf(allInput[j])}
            IN  /\ Cardinality(held) = 1
                /\ \A k \in held : readings[k] = allInput[first]

(* C2 witness: two readings with the same timestamp and different temperature
   and humidity were merged. *)
C2_Witness ==
    /\ pc = "merged"
    /\ \E i, j \in DOMAIN allInput :
          /\ i < j
          /\ timeOf(allInput[i]) = timeOf(allInput[j])
          /\ allInput[i].temperature # allInput[j].temperature
          /\ allInput[i].humidity # allInput[j].humidity

(* C3 as claimed: readings within the same whole second collapse to one
   output reading. *)
C3_SameSecondCollapses ==
    Merged =>
        \A i, j \in DOMAIN readings :
            i # j => secondOf(readings[i]) # secondOf(readings[j])

(* C3 amended: the dedup key is the instant itself, not truncated: readings
   collapse exactly when their instants are equal, so of every whole second
   the output holds one reading per distinct instant of the input, and of
   equal instants the first seen. *)
C3_SameInstantCollapses ==
    Merged =>
        /\ \A i, j \in DOMAIN allInput :
              secondOf(allInput[i]) = secondOf(allInput[j]) =>
                  Cardinality({k \in DOMAIN readings :
                                  secondOf(readings[k]) = secondOf(allInput[i])})
                    = Cardinality({timeOf(allInput[k]) : k \in
                                  {k \in DOMAIN allInput : secondOf(allInput[k]) = secondOf(allInput[i])}})
        /\ \A k \in DOMAIN readings :
              \E i \in DOMAIN allInput :
                  /\ readings[k] = allInput[i]
                  /\ \A h \in 1..(i - 1) : timeOf(allInput[h]) # timeOf(allInput[i])

(* C3 witness: the input held two readings of the same second at different
   instants and two readings of the same instant; both instants were kept. *)
C3_Witness ==
    /\ pc = "merged"
    /\ \E i, j \in DOMAIN allInput :
          /\ secondOf(allInput[i]) = secondOf(allInput[j])
          /\ timeOf(allInput[i]) # timeOf(allInput[j])
    /\ \E i, j \in DOMAIN allInput : i # j /\ timeOf(allInput[i]) = timeOf(allInput[j])
    /\ \E i, j \in DOMAIN readings :
          i # j /\ secondOf(readings[i]) = secondOf(readings[j])

(* C4: mergeReadings([mergeReadings(arrays)]) is the same sequence as
   mergeReadings(arrays). *)
C4_MergeIdempotent ==
    pc = "remerged" => second = readings

(* C4 witness: the merge of two sequences that dropped a duplicate and
   reordered the rest was merged again. *)
C4_Witness ==
    /\ pc = "remerged"
    /\ Len(readingsArrays) = 2
    /\ Len(second) >= 2
    /\ Len(allInput) > Len(readings)
    /\ \E i, j \in DOMAIN allInput : i < j /\ timeOf(allInput[i]) > timeOf(allInput[j])

(* C5: mergeReadings([a, a]) has the length and the set of elements of
   mergeReadings([a]). *)
C5_SelfMergeAddsNothing ==
    pc = "selfmerged" =>
        /\ Len(second) = Len(readings)
        /\ {second[i] : i \in DOMAIN second} = {readings[i] : i \in DOMAIN readings}

(* C5 witness: a sequence of at least two distinct timestamps was merged
   with itself. *)
C5_Witness ==
    /\ pc = "selfmerged"
    /\ Len(readingsArrays[1]) >= 2
    /\ Len(second) >= 2

(* C19: the timestamps of the output are exactly the distinct timestamps of
   the flattened input, and every reading of the output is a reading of the
   input: mergeReadings loses no timestamp and invents or alters no
   reading. *)
C19_TimestampsPreserved ==
    Merged =>
        /\ {timeOf(readings[k]) : k \in DOMAIN readings}
              = {timeOf(allInput[i]) : i \in DOMAIN allInput}
        /\ \A k \in DOMAIN readings : \E i \in DOMAIN allInput : readings[k] = allInput[i]

(* C19 witness: two arrays with three distinct instants, two of them in the
   same second, were merged into three readings. *)
C19_Witness ==
    /\ pc = "merged"
    /\ Len(readingsArrays) = 2
    /\ Len(readingsArrays[1]) >= 1 /\ Len(readingsArrays[2]) >= 1
    /\ Cardinality({timeOf(allInput[i]) : i \in DOMAIN allInput}) = 3
    /\ Len(readings) = 3

----------------------------------------------------------------------------
(* Harness of computeStats: the argument is any sequence of at most
   MaxStatsReadings readings, in ascending or in descending order of time
   (computeStats is given whatever its caller passes). *)

StatsInput(temps, humids, ascending) ==
    [i \in DOMAIN temps |->
        [timestamp |-> [time |-> TicksPerSecond *
                                   (IF ascending THEN i ELSE Len(temps) + 1 - i)],
         temperature |-> temps[i],
         humidity |-> humids[i]]]

InitStats ==
    /\ pc = "merged"
    /\ \E n \in 0..MaxStatsReadings :
          \E temps \in [1..n -> Temps], humids \in [1..n -> Hums], asc \in BOOLEAN :
              readings = StatsInput(temps, humids, asc)
    /\ readingsArrays = <<>>
    /\ second = <<>>
    /\ stats = Null
    /\ drive = <<>> /\ csvContents = <<>> /\ result = Null
    /\ clock = 0 /\ calls = {}
    /\ env = Null /\ downloads = <<>> /\ raised = Null /\ view = Null

(* stats = computeStats(readings) *)
Stats ==
    /\ pc = "merged"
    /\ stats' = computeStats(readings)
    /\ pc' = "stats"
    /\ UNCHANGED <<readingsArrays, readings, second, pipelineVars, clockVars, view>>

NextStats == Stats

SpecStats == InitStats /\ [][NextStats]_vars

----------------------------------------------------------------------------
(* Properties of computeStats *)

temperatures == [i \in DOMAIN readings |-> readings[i].temperature]
humidities == [i \in DOMAIN readings |-> readings[i].humidity]
Range(xs) == {xs[i] : i \in DOMAIN xs}

(* C6: computeStats returns the null "no data" result for an empty input and
   a summary for every non-empty input, and raises for neither. *)
C6_NullIffEmpty ==
    pc = "stats" =>
        /\ stats # TypeError
        /\ (stats = Null) <=> (Len(readings) = 0)
        /\ Len(readings) > 0 => stats.totalReadings = Len(readings)

(* C6 witness: computeStats was called with no readings and returned null. *)
C6_Witness ==
    pc = "stats" /\ readings = <<>> /\ stats = Null

(* C8: the minima and maxima are exact: each is the value of some input
   reading and every input value lies between the two of its field. *)
C8_ExactExtrema ==
    (pc = "stats" /\ Len(readings) > 0) =>
        /\ stats.minTemperature \in Range(temperatures)
        /\ stats.maxTemperature \in Range(temperatures)
        /\ stats.minHumidity \in Range(humidities)
        /\ stats.maxHumidity \in Range(humidities)
        /\ \A i \in DOMAIN readings :
              /\ stats.minTemperature <= temperatures[i]
              /\ temperatures[i] <= stats.maxTemperature
              /\ stats.minHumidity <= humidities[i]
              /\ humidities[i] <= stats.maxHumidity

(* C8 witness: a summary whose minimum humidity 58.75 has two decimals and
   whose extrema differ in both fields. *)
C8_Witness ==
    /\ pc = "stats"
    /\ Len(readings) >= 3
    /\ stats # Null
    /\ stats.minHumidity = 5875
    /\ stats.maxHumidity = 5900
    /\ stats.minTemperature < stats.maxTemperature

RECURSIVE sumOf(_)
sumOf(xs) == IF xs = <<>> THEN 0 ELSE Head(xs) + sumOf(Tail(xs))

(* The mean of xs (in hundredths) rounded to one decimal place, halves away
   from zero, written in hundredths. *)
roundedMean(xs) ==
    LET sum == sumOf(xs) IN 10 * ((2 * sum + 10 * Len(xs)) \div (20 * Len(xs)))

(* C9 as claimed: the averages are the arithmetic means rounded to one
   decimal place, halves away from zero. *)
C9_AveragesRoundHalfAwayFromZero ==
    (pc = "stats" /\ Len(readings) > 0) =>
        /\ stats.avgTemperature = roundedMean(temperatures)
        /\ stats.avgHumidity = roundedMean(humidities)

----------------------------------------------------------------------------
(* filterByDateRange (csv-parser) and filterReadings (weather-charts) *)

DateRange == {"24h", "7d", "30d", "all"}

HourTicks == 60 * 60 * TicksPerSecond

(* msMap, in ticks *)
msMap ==
    [r \in {"24h", "7d", "30d"} |->
        CASE r = "24h" -> 24 * HourTicks
          [] r = "7d" -> 7 * 24 * HourTicks
          [] r = "30d" -> 30 * 24 * HourTicks]

(* new Date(isoString) *)
newDateOfISO(iso) == [time |-> iso.seconds * TicksPerSecond + iso.fraction]

(* Mutant: "all" falls back to the widest window. *)
filterByDateRangeAllAsWindow(rs, range) ==
    LET now == [time |-> clock]
        window == IF range = "all" THEN msMap["30d"] ELSE msMap[range]
        cutoff == [time |-> getTime(now) - window]
    IN  SelectSeq(rs, LAMBDA r : getTime(r.timestamp) >= getTime(cutoff))

(* Mutant: a reading exactly at the cutoff is left out. *)
filterByDateRangeExclusive(rs, range) ==
    IF range = "all" THEN rs
    ELSE LET now == [time |-> clock]
             cutoff == [time |-> getTime(now) - msMap[range]]
         IN  SelectSeq(rs, LAMBDA r : getTime(r.timestamp) > getTime(cutoff))

(* now is new Date(): the clock as the call is made *)
filterByDateRange(rs, range) ==
    IF range = "all" THEN rs
    ELSE LET now == [time |-> clock]
             cutoff == [time |-> getTime(now) - msMap[range]]
         IN  SelectSeq(rs, LAMBDA r : getTime(r.timestamp) >= getTime(cutoff))

(* The same over the serialized readings the chart is given *)
filterReadings(rs, range) ==
    IF range = "all" THEN rs
    ELSE LET now == [time |-> clock]
             cutoff == [time |-> getTime(now) - msMap[range]]
         IN  SelectSeq(rs, LAMBDA r :
                 getTime(newDateOfISO(r.timestamp)) >= getTime(cutoff))

----------------------------------------------------------------------------
(* weather-charts and dashboard-header: what the page renders *)

DefaultMaxPoints == 200

(* Math.ceil(a / b) of integers a >= 0, b >= 1 far below 2^53: the quotient
   of the doubles is within one part in 2^53 of a / b, so its ceiling is the
   ceiling of the fraction. *)
mathCeilOfQuotient(a, b) == (a + b - 1) \div b

(* Mutant: the step rounded down. *)
downsampleDataFloorStep(data, maxPoints) ==
    IF Len(data) <= maxPoints THEN data
    ELSE LET step == IF Len(data) \div maxPoints = 0 THEN 1
                     ELSE Len(data) \div maxPoints
             kept == {i \in 0..(Len(data) - 1) : i % step = 0}
         IN  [k \in 1..Cardinality(kept) |-> data[(k - 1) * step + 1]]

(* data.filter((_, i) => i % step === 0): the elements at the 0-based
   indices 0, step, 2 * step, ... *)
downsampleData(data, maxPoints) ==
    IF Len(data) <= maxPoints THEN data
    ELSE LET step == mathCeilOfQuotient(Len(data), maxPoints)
             kept == {i \in 0..(Len(data) - 1) : i % step = 0}
         IN  [k \in 1..Cardinality(kept) |-> data[(k - 1) * step + 1]]

NoDataAvailableYet == [shows |-> "No data available yet."]
NoWeatherDataYet == [shows |-> "No weather data to display yet."]

(* Mutant: the header without its guard reads lastUpdated of null. *)
DashboardHeaderUnguarded(st) ==
    IF st = Null THEN TypeError ELSE [shows |-> "stats", stats |-> st]

DashboardHeader(st) ==
    IF st = Null THEN NoDataAvailableYet ELSE [shows |-> "stats", stats |-> st]

(* The range is "7d" when the component is first rendered. *)
WeatherCharts(rs) ==
    LET filtered == filterReadings(rs, "7d")
        filteredData == downsampleData(filtered, DefaultMaxPoints)
        chartData == [i \in DOMAIN filteredData |->
                         [timestamp |-> filteredData[i].timestamp,
                          temperature |-> filteredData[i].temperature,
                          humidity |-> filteredData[i].humidity,
                          time |-> filteredData[i].timestamp]]
    IN  IF Len(rs) = 0 THEN NoWeatherDataYet
        ELSE [shows |-> "charts", chartData |-> chartData]

----------------------------------------------------------------------------
(* formatForChart *)

(* timestamp.toLocaleString("en-US", {month, day, hour, minute}): the text
   names the minute of the instant and nothing finer *)
toLocaleString(d) == [minute |-> getTime(d) \div (60 * TicksPerSecond)]

(* Mutant: the readings are merged before they are mapped. *)
formatForChartMerged(rs) ==
    LET merged == sortChronologically(filterSeen(rs, {}))
    IN  [i \in DOMAIN merged |->
            [time |-> toLocaleString(merged[i].timestamp),
             timestamp |-> getTime(merged[i].timestamp),
             temperature |-> merged[i].temperature,
             humidity |-> merged[i].humidity]]

formatForChart(rs) ==
    [i \in DOMAIN rs |->
        [time |-> toLocaleString(rs[i].timestamp),
         timestamp |-> getTime(rs[i].timestamp),
         temperature |-> rs[i].temperature,
         humidity |-> rs[i].humidity]]

----------------------------------------------------------------------------
(* google-drive: fetchAllCSVData *)

Env == [credentials : BOOLEAN, folderId : BOOLEAN]

Error(message) == [error |-> message]

(* What getDriveClient throws (Null when it returns a client) *)
getDriveClientError(e) ==
    IF ~e.credentials THEN Error("Google credentials not configured")
    ELSE Null

(* What listCSVFiles throws before it asks for the listing *)
listCSVFilesError(e) ==
    IF getDriveClientError(e) # Null THEN getDriveClientError(e)
    ELSE IF ~e.folderId THEN Error("GOOGLE_DRIVE_FOLDER_ID is not set")
    ELSE Null

(* The files whose download has ended *)
endedFiles(ended) == {ended[k].file : k \in DOMAIN ended}

(* Whether the download of file i ended with its content *)
downloaded(ended, i) == \E k \in DOMAIN ended : ended[k].file = i /\ ended[k].ok

(* Mutant: the contents are collected in the order the downloads ended. *)
fetchAllCSVDataAsCompleted(files, ended) ==
    LET contents == [k \in DOMAIN ended |->
                        IF ended[k].ok THEN files[ended[k].file] ELSE <<>>]
    IN  SelectSeq(contents, LAMBDA c : Len(c) > 0)

(* Mutant: a download that failed still contributes the content. *)
fetchAllCSVDataUncaught(files, ended) ==
    SelectSeq(files, LAMBDA c : Len(c) > 0)

(* const contents = await Promise.all(files.map(... downloadFile ... catch
   => "")); return contents.filter(c => c.length > 0).  Promise.all keeps
   the order of files, whatever the order the downloads ended in. *)
fetchAllCSVData(files, ended) ==
    LET contents == [i \in DOMAIN files |->
                        IF downloaded(ended, i) THEN files[i] ELSE <<>>]
    IN  SelectSeq(contents, LAMBDA c : Len(c) > 0)

----------------------------------------------------------------------------
(* getWeatherData: fetch, then parse, merge, compute and serialize in one
   synchronous run; whatever is thrown on the way is caught.  The page then
   renders the result. *)

MaxLines == 2

(* Two lines of the same instant with different values, a line of a later
   instant and a line that is not a record *)
PipelineLine ==
    {RecordLine(TicksPerSecond, 5900, 1810),
     RecordLine(TicksPerSecond, 5875, 1820),
     RecordLine(2 * TicksPerSecond, 5900, 1810),
     GarbageLine}

Init ==
    /\ pc = "start"
    /\ env \in Env
    /\ \E text \in SeqsUpTo(PipelineLine, MaxLines) : drive \in ArraysOf(text)
    /\ downloads = <<>>
    /\ raised = Null
    /\ csvContents = <<>>
    /\ readingsArrays = <<>>
    /\ readings = <<>>
    /\ second = <<>>
    /\ stats = Null
    /\ result = Null
    /\ clock = 2 * TicksPerSecond /\ calls = {}
    /\ view = Null

(* const files = await listCSVFiles() returns the listing; the downloads of
   all files are started *)
ListFiles ==
    /\ pc = "start"
    /\ listCSVFilesError(env) = Null
    /\ pc' = "downloading"
    /\ UNCHANGED <<fetchVars, csvContents, readingsArrays, readings, second,
                   stats, result, clockVars, view>>

(* await listCSVFiles() throws: the credentials or the folder id are not
   set, or drive.files.list rejects.  fetchAllCSVData has no catch around
   it, so the promise it returned is rejected. *)
ListThrows ==
    /\ pc = "start"
    /\ raised' = IF listCSVFilesError(env) # Null THEN listCSVFilesError(env)
                 ELSE Error("drive.files.list rejected")
    /\ pc' = "raised"
    /\ UNCHANGED <<env, drive, downloads, csvContents, readingsArrays, readings,
                   second, stats, result, clockVars, view>>

(* One of the downloads ends: downloadFile resolves with the content, or it
   rejects and the callback returns "" *)
DownloadEnds ==
    /\ pc = "downloading"
    /\ \E i \in DOMAIN drive \ endedFiles(downloads), ok \in BOOLEAN :
          downloads' = Append(downloads, [file |-> i, ok |-> ok])
    /\ UNCHANGED <<pc, env, drive, raised, csvContents, readingsArrays, readings,
                   second, stats, result, clockVars, view>>

(* await fetchAllCSVData() returns: every download has ended *)
Fetch ==
    /\ pc = "downloading"
    /\ endedFiles(downloads) = DOMAIN drive
    /\ csvContents' = fetchAllCSVData(drive, downloads)
    /\ pc' = "fetched"
    /\ UNCHANGED <<fetchVars, readingsArrays, readings, second, stats, result,
                   clockVars, view>>

(* What the catch block returns *)
noData == [readings |-> <<>>, stats |-> Null]

(* await fetchAllCSVData() throws:
   catch (error) { return { readings: [], stats: null } } *)
FetchThrows ==
    /\ pc = "raised"
    /\ result' = noData
    /\ pc' = "done"
    /\ UNCHANGED <<fetchVars, csvContents, readingsArrays, readings, second,
                   stats, clockVars, view>>

serializeReading(r) ==
    [timestamp |-> toISOString(r.timestamp),
     temperature |-> r.temperature,
     humidity |-> r.humidity]

serializeStats(st) ==
    IF st = Null THEN Null
    ELSE [st EXCEPT !.lastUpdated = toISOString(st.lastUpdated)]

(* The rest of the try block *)
Process ==
    /\ pc = "fetched"
    /\ LET parsed == [i \in DOMAIN csvContents |-> parseCSV(csvContents[i])]
           merged == mergeReadings(parsed)
           computed == computeStats(merged)
       IN  /\ readingsArrays' = parsed
           /\ readings' = merged
           /\ stats' = computed
           /\ result' = [readings |-> [i \in DOMAIN merged |-> serializeReading(merged[i])],
                         stats |-> serializeStats(computed)]
    /\ pc' = "done"
    /\ UNCHANGED <<fetchVars, csvContents, second, clockVars, view>>

(* DashboardContent: <DashboardHeader stats={stats} /> and
   <WeatherCharts readings={readings} /> *)
Render ==
    /\ pc = "done"
    /\ view' = [header |-> DashboardHeader(result.stats),
                charts |-> WeatherCharts(result.readings)]
    /\ pc' = "rendered"
    /\ UNCHANGED <<fetchVars, csvContents, readingsArrays, readings, second,
                   stats, result, clockVars>>

Next == ListFiles \/ ListThrows \/ DownloadEnds \/ Fetch \/ FetchThrows
          \/ Process \/ Render

Spec == Init /\ [][Next]_vars

----------------------------------------------------------------------------
(* Properties of the pipeline *)

Processed == pc \in {"done", "rendered"} /\ result.stats # Null

(* C7: for every non-empty merged sequence the summary's current values are
   those of the reading with the greatest timestamp and lastUpdated is that
   timestamp; computeStats takes them from the last element of its input. *)
C7_CurrentIsLatest ==
    Processed =>
        /\ stats.currentTemperature = readings[Len(readings)].temperature
        /\ stats.currentHumidity = readings[Len(readings)].humidity
        /\ stats.lastUpdated = readings[Len(readings)].timestamp
        /\ \A i \in DOMAIN allInput : timeOf(allInput[i]) <= getTime(stats.lastUpdated)
        /\ \E i \in DOMAIN allInput :
              /\ timeOf(allInput[i]) = getTime(stats.lastUpdated)
              /\ allInput[i].temperature = stats.currentTemperature
              /\ allInput[i].humidity = stats.currentHumidity

(* C7 witness: the latest reading was parsed before an earlier one with
   other values, and the summary shows the latest. *)
C7_Witness ==
    /\ Processed
    /\ Len(readings) >= 2
    /\ \E i, j \in DOMAIN allInput :
          /\ i < j
          /\ timeOf(allInput[i]) > timeOf(allInput[j])
          /\ allInput[i].temperature # allInput[j].temperature
          /\ getTime(stats.lastUpdated) = timeOf(allInput[i])

----------------------------------------------------------------------------
(* Harness of the range filters: two calls on the same merged readings, the
   wall clock advancing in between. *)

MaxFilterReadings == 3
MaxTicks == 1

(* The wall clock when the harness starts *)
Now0 == 31 * 24 * HourTicks

(* Readings 1 h, 24 h, 100 h, 7 d, 200 h and 30 d old at Now0 *)
FilterInstants ==
    {Now0 - h * HourTicks : h \in {1, 24, 100, 7 * 24, 200, 30 * 24}}

FilterReading ==
    {[timestamp |-> [time |-> t], temperature |-> 1810, humidity |-> 5900] :
        t \in FilterInstants}

InitFilter ==
    /\ pc = "merged"
    /\ readings \in SeqsUpTo(FilterReading, MaxFilterReadings)
    /\ clock = Now0
    /\ calls = {}
    /\ readingsArrays = <<>>
    /\ second = <<>>
    /\ stats = Null
    /\ drive = <<>> /\ csvContents = <<>> /\ result = Null
    /\ env = Null /\ downloads = <<>> /\ raised = Null /\ view = Null

(* Time passes. *)
Tick ==
    /\ clock < Now0 + MaxTicks
    /\ clock' = clock + 1
    /\ UNCHANGED <<pc, readingsArrays, readings, second, stats, pipelineVars, calls, view>>

CallFilterByDateRange ==
    /\ Cardinality(calls) < 2
    /\ \E range \in DateRange :
          calls' = calls \cup
              {[fn |-> "filterByDateRange", readings |-> readings, range |-> range,
                at |-> clock, result |-> filterByDateRange(readings, range)]}
    /\ UNCHANGED <<pc, readingsArrays, readings, second, stats, pipelineVars, clock, view>>

CallFilterReadings ==
    /\ Cardinality(calls) < 2
    /\ \E range \in DateRange :
          LET serialized == [i \in DOMAIN readings |-> serializeReading(readings[i])]
          IN  calls' = calls \cup
                  {[fn |-> "filterReadings", readings |-> serialized, range |-> range,
                    at |-> clock, result |-> filterReadings(serialized, range)]}
    /\ UNCHANGED <<pc, readingsArrays, readings, second, stats, pipelineVars, clock, view>>

NextFilter == Tick \/ CallFilterByDateRange \/ CallFilterReadings

SpecFilter == InitFilter /\ [][NextFilter]_vars

----------------------------------------------------------------------------
(* Properties of the range filters *)

SameArguments(c1, c2) ==
    c1.fn = c2.fn /\ c1.readings = c2.readings /\ c1.range = c2.range

(* C10 as claimed: the filter does not read an ambient clock: two calls with
   the same arguments return the same result at whatever wall-clock time
   each is made. *)
C10_ResultIndependentOfWallClock ==
    \A c1, c2 \in calls : SameArguments(c1, c2) => c1.result = c2.result

(* C10 amended: the filter has no now argument and reads the ambient clock
   as it is called: two calls with the same readings and range return the
   same result when the clock reads the same at both calls, and for the
   range "all" at whatever time each is made. *)
C10_ResultDependsOnWallClockOnly ==
    \A c1, c2 \in calls :
        (SameArguments(c1, c2) /\ (c1.at = c2.at \/ c1.range = "all")) =>
            c1.result = c2.result

(* C10 witness: two calls for "all" were made at different wall-clock times
   on readings of which one had left every window by the second call. *)
C10_Witness ==
    \E c1, c2 \in calls :
        /\ SameArguments(c1, c2)
        /\ c1.range = "all"
        /\ c1.at # c2.at
        /\ c1.fn = "filterByDateRange"
        /\ \E i \in DOMAIN c1.readings :
              getTime(c1.readings[i].timestamp) = Now0 - msMap["30d"]

(* The age in hours below which a range keeps a reading *)
windowHours(range) ==
    CASE range = "24h" -> 24
      [] range = "7d" -> 168
      [] range = "30d" -> 720

(* The instant of a reading of a call: a Date for filterByDateRange, an ISO
   text for filterReadings *)
instantOf(c, r) ==
    IF c.fn = "filterByDateRange" THEN r.timestamp.time
    ELSE r.timestamp.seconds * TicksPerSecond + r.timestamp.fraction

(* The indices of the readings a call has to keep, now being the instant at
   which the call was made *)
keptIndices(c) ==
    IF c.range = "all" THEN DOMAIN c.readings
    ELSE {i \in DOMAIN c.readings :
             instantOf(c, c.readings[i]) >=
                 c.at - windowHours(c.range) * 60 * 60 * TicksPerSecond}

(* s is the subsequence of rs at the indices of keep, in the order of rs *)
IsSubsequenceAt(s, rs, keep) ==
    /\ Len(s) = Cardinality(keep)
    /\ \A k \in DOMAIN s :
          \E i \in keep :
              /\ s[k] = rs[i]
              /\ Cardinality({j \in keep : j < i}) = k - 1

(* C11: for "24h", "7d" and "30d" the filter returns exactly the readings
   whose timestamp is >= now minus 24, 168 and 720 hours, a reading exactly
   at the cutoff included, in their input order; for "all" it returns the
   input, same elements in the same order. *)
C11_CutoffInclusive ==
    \A c \in calls :
        /\ IsSubsequenceAt(c.result, c.readings, keptIndices(c))
        /\ c.range = "all" => c.result = c.readings

(* C11 witness: of readings 1 h, 100 h and 200 h old "7d" kept exactly the
   first two. *)
C11_Witness ==
    \E c \in calls :
        /\ c.fn = "filterByDateRange"
        /\ c.range = "7d"
        /\ c.at = Now0
        /\ [i \in DOMAIN c.readings |-> Now0 - getTime(c.readings[i].timestamp)]
              = <<1 * HourTicks, 100 * HourTicks, 200 * HourTicks>>
        /\ c.result = SubSeq(c.readings, 1, 2)

----------------------------------------------------------------------------
(* Properties of the fetch and of the result of getWeatherData *)

(* The files whose download ended with their content *)
okFiles == {i \in DOMAIN drive : \E k \in DOMAIN downloads :
                                    downloads[k].file = i /\ downloads[k].ok}

(* fetchAllCSVData has returned *)
Returned == pc \in {"fetched", "done", "rendered"} /\ raised = Null

(* getWeatherData has returned *)
Done == pc \in {"done", "rendered"}

(* C15 as claimed: fetchAllCSVData raises no error: when the credentials or
   the folder id are missing, the listing fails or a download fails it
   returns, and a file that failed contributes no blob. *)
C15_FetchDegradesToZeroBlobs ==
    /\ raised = Null
    /\ pc # "raised"
    /\ Returned =>
          \A k \in DOMAIN csvContents : \E i \in okFiles : csvContents[k] = drive[i]

(* C15 amended: fetchAllCSVData catches the failure of a download only: the
   file contributes no blob, and when every download fails zero blobs are
   returned.  Missing credentials, a missing folder id and a failed listing
   raise out of fetchAllCSVData before any download is started; the error
   passes by parse, merge and stats and is caught by getWeatherData, whose
   result is then the one of zero blobs: no readings and null stats. *)
C15_OnlyDownloadFailureDegrades ==
    /\ Returned =>
          /\ \A k \in DOMAIN csvContents : \E i \in okFiles : csvContents[k] = drive[i]
          /\ okFiles = {} => csvContents = <<>>
    /\ (~env.credentials \/ ~env.folderId) =>
          /\ pc \in {"start", "raised", "done", "rendered"}
          /\ pc # "start" => raised # Null
    /\ raised # Null =>
          /\ downloads = <<>>
          /\ csvContents = <<>> /\ readingsArrays = <<>> /\ readings = <<>>
          /\ Done => (result.readings = <<>> /\ result.stats = Null)
    /\ (Done /\ raised = Null /\ csvContents = <<>>) =>
          (result.readings = <<>> /\ result.stats = Null)

(* C15 witness: with files in the folder and the credentials missing the
   fetch raised, and getWeatherData returned no readings and null stats. *)
C15_Witness ==
    /\ pc = "done"
    /\ ~env.credentials
    /\ \E i \in DOMAIN drive : parseCSV(drive[i]) # <<>>
    /\ raised # Null
    /\ result.stats = Null

(* C16: in every result of getWeatherData, returned by the try block or by
   the catch block, stats is null exactly when readings is empty; a null
   stats is rendered as the "no data available" view and never raises. *)
C16_NullStatsIffNoReadings ==
    /\ Done => ((result.stats = Null) <=> (Len(result.readings) = 0))
    /\ pc = "rendered" =>
          /\ view.header # TypeError
          /\ (result.stats = Null) <=> (view.header = NoDataAvailableYet)
          /\ (result.stats = Null) => (view.charts = NoWeatherDataYet)

(* C16 witness: every download succeeded, no line of the files was a record,
   and the page rendered the "no data available" view. *)
C16_Witness ==
    /\ pc = "rendered"
    /\ raised = Null
    /\ Len(csvContents) >= 1
    /\ result.stats = Null
    /\ view.header = NoDataAvailableYet

(* The files whose content the fetch has to return, and their contents in
   the order of the listing *)
wantedFiles == {i \in okFiles : drive[i] # <<>>}
wantedBlobs ==
    [k \in 1..Cardinality(wantedFiles) |->
        drive[CHOOSE i \in wantedFiles :
                  Cardinality({j \in wantedFiles : j < i}) = k - 1]]

(* C18: in whatever order the downloads end and whichever of them fail, the
   fetch returns the non-empty contents of the files that were downloaded,
   in the order of the listing, and the merged readings are those of these
   contents in that order. *)
C18_ListingOrderWhateverTheCompletionOrder ==
    /\ Returned => csvContents = wantedBlobs
    /\ (Done /\ raised = Null) =>
          readings = mergeReadings([k \in DOMAIN wantedBlobs |->
                                       parseCSV(wantedBlobs[k])])

(* C18 witness: the second file was downloaded before the first, both hold
   a reading of the same instant with different values, and the reading of
   the first file was kept. *)
C18_Witness ==
    /\ pc = "done"
    /\ Len(drive) = 2
    /\ downloads = <<[file |-> 2, ok |-> TRUE], [file |-> 1, ok |-> TRUE]>>
    /\ Len(readingsArrays) = 2
    /\ Len(readingsArrays[1]) = 1 /\ Len(readingsArrays[2]) = 1
    /\ timeOf(readingsArrays[1][1]) = timeOf(readingsArrays[2][1])
    /\ readingsArrays[1][1].temperature # readingsArrays[2][1].temperature
    /\ readings = <<readingsArrays[1][1]>>

----------------------------------------------------------------------------
(* Harness of parseCSV: the argument is any text of at most MaxParseLines
   lines; the text is then parsed again with a header line before it. *)

MaxParseLines == 4

(* "timestamp,raw_data" and "TIMESTAMP,RAW_DATA" *)
HeaderLineLower ==
    Line(FALSE, <<"t", "i", "m", "e", "s", "t", "a", "m", "p", ",">>, TRUE,
         NotADate, NoMatch, NoMatch)
HeaderLineUpper ==
    Line(FALSE, <<"T", "I", "M", "E", "S", "T", "A", "M", "P", ",">>, TRUE,
         NotADate, NoMatch, NoMatch)
HeaderLines == {HeaderLine, HeaderLineLower, HeaderLineUpper}

(* "not-a-date,Humidity: 59.00%  Temp: 18.10C" *)
BadDateLine ==
    Line(FALSE, <<"n", "o", "t", "-", "a", "-", "d", "a", "t", "e">>, TRUE,
         NotADate, Captured(5900), Captured(1810))
(* "2026-02-08 12:00:00,Humidity: 50%" *)
MissingTempLine ==
    Line(FALSE, <<"2", "0", "2", "6", "-", "0", "2", "-", "0", "8">>, TRUE,
         TimeText(TicksPerSecond), Captured(5000), NoMatch)
(* "2026-02-08 12:00:21,Humidity: .%  Temp: 18.10C" *)
DotLine ==
    Line(FALSE, <<"2", "0", "2", "6", "-", "0", "2", "-", "0", "8">>, TRUE,
         TimeText(TicksPerSecond), CapturedDot, Captured(1810))
(* "2026-02-08 12:00:21,Humidity: 1000...000%  Temp: 18.10C", the humidity
   written with 400 digits *)
HugeLine ==
    Line(FALSE, <<"2", "0", "2", "6", "-", "0", "2", "-", "0", "8">>, TRUE,
         TimeText(TicksPerSecond), CapturedHuge, Captured(1810))

ParseLine ==
    {RecordLine(TicksPerSecond, 5900, 1810),
     RecordLine(2 * TicksPerSecond, 5875, 1820),
     HeaderLine, GarbageLine, BlankLine, BadDateLine, MissingTempLine,
     DotLine, HugeLine}

InitParse ==
    /\ pc = "fetched"
    /\ \E text \in SeqsUpTo(ParseLine, MaxParseLines) : csvContents = <<text>>
    /\ readingsArrays = <<>>
    /\ readings = <<>>
    /\ second = <<>>
    /\ stats = Null
    /\ drive = <<>> /\ result = Null
    /\ clock = 0 /\ calls = {}
    /\ env = Null /\ downloads = <<>> /\ raised = Null /\ view = Null

(* const parsed = csvContents.map((csv) => parseCSV(csv)) *)
Parse ==
    /\ pc = "fetched"
    /\ readingsArrays' = [i \in DOMAIN csvContents |-> parseCSV(csvContents[i])]
    /\ pc' = "parsed"
    /\ UNCHANGED <<fetchVars, csvContents, readings, second, stats, result,
                   clockVars, view>>

(* parseCSV(header + "\n" + csv) *)
ParseWithHeader ==
    /\ pc = "parsed"
    /\ \E header \in HeaderLines :
          LET prefixed == <<header>> \o csvContents[1]
          IN  /\ csvContents' = Append(csvContents, prefixed)
              /\ readingsArrays' = Append(readingsArrays, parseCSV(prefixed))
    /\ pc' = "reparsed"
    /\ UNCHANGED <<fetchVars, readings, second, stats, result, clockVars, view>>

NextParse == Parse \/ ParseWithHeader

SpecParse == InitParse /\ [][NextParse]_vars

----------------------------------------------------------------------------
(* Properties of parseCSV *)

Parsed == pc \in {"parsed", "reparsed"}

(* A line that holds a record: it is not blank and not a header, has a
   comma, a timestamp that parses, and a humidity and a temperature field
   whose numerals parse. *)
WellFormed(line) ==
    /\ ~line.blank
    /\ line \notin HeaderLines
    /\ line.comma
    /\ line.timestampStr.valid
    /\ line.humidity.matched /\ line.humidity.numeric
    /\ line.temp.matched /\ line.temp.numeric

(* The reading a well-formed line stands for *)
readingOf(line) ==
    [timestamp |-> [time |-> line.timestampStr.time],
     temperature |-> line.temp.hundredths,
     humidity |-> line.humidity.hundredths]

(* C12: parseCSV raises on no text: a line that is blank, has no comma, has
   a timestamp that does not parse or lacks a humidity or temperature field
   is dropped and the next line is parsed, so the output holds exactly one
   reading per well-formed line, in the order of the lines. *)
C12_OneReadingPerWellFormedLine ==
    Parsed =>
        \A k \in DOMAIN csvContents :
            LET text == csvContents[k]
            IN  IsSubsequenceAt(readingsArrays[k],
                                [i \in DOMAIN text |-> readingOf(text[i])],
                                {i \in DOMAIN text : WellFormed(text[i])})

(* C12 witness: a text of one well-formed line followed by a line without
   comma, a line whose date does not parse and a line without temperature
   was parsed to the one reading of the first line. *)
C12_Witness ==
    /\ pc = "parsed"
    /\ csvContents[1] = <<RecordLine(TicksPerSecond, 5900, 1810), GarbageLine,
                          BadDateLine, MissingTempLine>>
    /\ readingsArrays[1] = <<[timestamp |-> [time |-> TicksPerSecond],
                              temperature |-> 1810, humidity |-> 5900]>>

(* C13 as claimed: every reading of the output has a valid timestamp and a
   finite temperature and humidity: a line with a numeric field that parses
   to NaN or to an infinity is discarded. *)
C13_ReadingsFinite ==
    Parsed =>
        \A k \in DOMAIN readingsArrays :
            \A i \in DOMAIN readingsArrays[k] :
                LET r == readingsArrays[k][i]
                IN  /\ getTime(r.timestamp) # NaN
                    /\ r.temperature # Infinity
                    /\ r.humidity # Infinity

(* C14: parsing a text with a header line before it, "timestamp" in any
   letter case, gives the readings of the text alone. *)
C14_LeadingHeaderIgnored ==
    pc = "reparsed" => readingsArrays[2] = readingsArrays[1]

(* C14 witness: a text of two readings was parsed again behind the header
   in upper case. *)
C14_Witness ==
    /\ pc = "reparsed"
    /\ csvContents[2][1] = HeaderLineUpper
    /\ Len(csvContents[2]) = Len(csvContents[1]) + 1
    /\ Len(readingsArrays[1]) >= 2
    /\ Len(readingsArrays[2]) >= 2

----------------------------------------------------------------------------
(* Harness of the chart helpers: formatForChart is given any sequence of at
   most MaxReadings readings, in any order and with repeated instants;
   downsampleData is given the serialized form of such a sequence or of a
   sequence of up to MaxChartPoints readings, with the default maxPoints or
   one of 1..MaxPoints. *)

MaxChartPoints == 401
MaxPoints == 4

(* n readings, one per tick *)
ChartReadings(n) ==
    [i \in 1..n |->
        [timestamp |-> [time |-> i], temperature |-> 1810, humidity |-> 5900]]

InitChart ==
    /\ pc = "merged"
    /\ \/ readings \in SeqsUpTo(MergeInputReading, MaxReadings)
       \/ \E n \in 0..MaxChartPoints : readings = ChartReadings(n)
    /\ readingsArrays = <<>>
    /\ second = <<>>
    /\ stats = Null
    /\ drive = <<>> /\ csvContents = <<>> /\ result = Null
    /\ clock = 0 /\ calls = {}
    /\ env = Null /\ downloads = <<>> /\ raised = Null /\ view = Null

(* formatForChart(readings) *)
FormatForChart ==
    /\ pc = "merged"
    /\ view' = [result |-> formatForChart(readings)]
    /\ pc' = "formatted"
    /\ UNCHANGED <<readingsArrays, readings, second, stats, pipelineVars, clockVars>>

(* downsampleData(data) and downsampleData(data, maxPoints) *)
Downsample ==
    /\ pc = "merged"
    /\ \E maxPoints \in (1..MaxPoints) \cup {DefaultMaxPoints} :
          LET data == [i \in DOMAIN readings |-> serializeReading(readings[i])]
          IN  view' = [data |-> data, maxPoints |-> maxPoints,
                       result |-> downsampleData(data, maxPoints)]
    /\ pc' = "downsampled"
    /\ UNCHANGED <<readingsArrays, readings, second, stats, pipelineVars, clockVars>>

NextChart == FormatForChart \/ Downsample

SpecChart == InitChart /\ [][NextChart]_vars

----------------------------------------------------------------------------
(* Properties of the chart helpers *)

(* C17: formatForChart maps reading i to element i: the output has the
   length of the input, and element i has the numeric instant of reading i
   in its timestamp field and the temperature and humidity of reading i;
   nothing is filtered, reordered or deduplicated. *)
C17_OneToOne ==
    pc = "formatted" =>
        /\ Len(view.result) = Len(readings)
        /\ \A i \in DOMAIN readings :
              /\ view.result[i].timestamp = timeOf(readings[i])
              /\ view.result[i].temperature = readings[i].temperature
              /\ view.result[i].humidity = readings[i].humidity

(* C17 witness: three readings out of order, two of them of the same
   instant, were mapped to three elements. *)
C17_Witness ==
    /\ pc = "formatted"
    /\ Len(view.result) = 3
    /\ timeOf(readings[1]) > timeOf(readings[2])
    /\ timeOf(readings[1]) = timeOf(readings[3])
    /\ readings[1] # readings[3]

(* The least step with step * maxPoints >= length *)
stepFor(length, maxPoints) ==
    CHOOSE step \in 1..length :
        step * maxPoints >= length /\ (step - 1) * maxPoints < length

(* C20: downsampleData returns data itself when it has at most maxPoints
   elements (200 when maxPoints is not given); otherwise it returns the
   elements at the indices 0, step, 2 * step, ... with
   step = ceil(length / maxPoints): a subsequence in the order of data, of
   at most maxPoints elements, that starts with the first element of
   data. *)
C20_EveryStepth ==
    pc = "downsampled" =>
        LET data == view.data
            out == view.result
        IN  IF Len(data) <= view.maxPoints THEN out = data
            ELSE LET step == stepFor(Len(data), view.maxPoints)
                 IN  /\ Len(out) <= view.maxPoints
                     /\ Len(out) = ((Len(data) - 1) \div step) + 1
                     /\ out[1] = data[1]
                     /\ \A k \in DOMAIN out : out[k] = data[(k - 1) * step + 1]

(* C20 witness: 401 points were downsampled with the default maxPoints to
   every third point. *)
C20_Witness ==
    /\ pc = "downsampled"
    /\ view.maxPoints = DefaultMaxPoints
    /\ Len(view.data) = 401
    /\ Len(view.result) = 134
    /\ view.result[2] = view.data[4]

====
